---- MODULE Spec2Model ----
(***************************************************************************)
(* A model of the GBD feature store (gbd_tool/db.py) and of its ingestion  *)
(* pipeline (gbd_tool/init.py).                                            *)
(*                                                                         *)
(* Texts (identities, values, paths, SQL default texts) are sequences of   *)
(* one-character strings, so that the lexical tests of the SQL statements  *)
(* (GLOB, LIKE, CAST, the IN (...) lists built with str.join) can be       *)
(* computed the way the engine computes them.                              *)
(*                                                                         *)
(* Specifications:                                                         *)
(*   Spec      one store file under Database objects that are constructed, *)
(*             used and closed: the dedicated (identity, value) features   *)
(*   SpecCols  the same, for the features that are registry columns        *)
(*   SpecTwoCols  the same, for two registry columns and forced writes      *)
(*   SpecReg   the same, for the local table and the identity registry     *)
(*   SpecFed   Database objects over lists of several paths                *)
(*   SpecRegister  register_benchmarks over a tree of files, run twice      *)
(*   SpecStale the same, for remove_stale_benchmarks over the local table   *)
(*   SpecMeta  the same, for the meta records of the __meta table          *)
(*   SpecFV    feature_values over the texts stored in one feature         *)
(*   SpecFP    compute_degree_sequence_hash over bounded instance files    *)
(*   SpecRun   run over one result set, sequentially and with a pool       *)
(***************************************************************************)
EXTENDS Integers, Sequences, FiniteSets, TLC

VARIABLES
    pc,             \* "closed": no Database object; "open": one is constructed
    store,          \* the store file as the engine sees it (schema and rows)
    feature_infos,  \* Database.feature_infos of the open object
    database_infos, \* Database.database_infos: the registered stores, in order
    connection,     \* Database.connection: its file and what is attached to it
    last,           \* the most recent call on the Database and how it ended
    instance,       \* the lines of the instance file that is fingerprinted
    fp,             \* what compute_degree_sequence_hash returned for it
    resultset,      \* the records run is called with (the files of the tree
                    \* for register_benchmarks)
    seq,            \* the run with jobs = 1: its position and what it merged
    par             \* the run with jobs > 1: its tasks, outcomes and merges

dbvars == <<pc, store, feature_infos, database_infos, connection, last>>

fpvars == <<instance, fp>>

runvars == <<resultset, seq, par>>

vars ==
    <<pc, store, feature_infos, database_infos, connection, last,
      instance, fp, resultset, seq, par>>

----------------------------------------------------------------------------
(* Bounds and input domains                                                *)

\* Longest list of identities or of values handed to one call.
MaxList == 2

EmptyText == <<>>

\* Identities: the empty text and one hash.
Hashes == {EmptyText, <<"a">>}

\* Stored values (and paths of local): the empty text and one word.
Values == {EmptyText, <<"x">>}

\* Names create_feature is called with and no default: dedicated tables.
\* "cnf" is also the name of the context (see context_from_name).
DedicatedNames == {"cnf", "f"}

\* Names create_feature is called with and a default: registry columns.
ColumnNames == {"g"}

\* Longest text stored in the feature that feature_values classifies.
MaxTextLen == 3

\* Most texts stored in that feature.
MaxStored == 2

\* The characters of those texts.
TextChars == {"1", "2", "-", ".", "e", "a"}

Texts == UNION {[1..n -> TextChars] : n \in 0..MaxTextLen}

\* Most literals on one clause line of an instance file.
MaxLits == 3

\* Most lines of an instance file.
MaxLines == 1

\* The variable numbers of the instance files.
VarNumbers == {1, 2}

\* Most records of the result set run is called with.
MaxRecords == 3

\* Most worker processes of the pool: min(cpu_count(), jobs) with jobs > 1.
MaxWorkers == 2

\* Default texts create_feature is called with.
Defaults == {<<"0">>, <<"'", "x", "'">>}

\* The (identity, value) tables of a store: the dedicated features and local.
PairTables == DedicatedNames \cup {"local"}

Range(s) == {s[i] : i \in 1..Len(s)}

Lists(S) == UNION {[1..n -> S] : n \in 0..MaxList}

\* Python's None for an optional text, and a given text.
None == <<>>

Some(t) == <<t>>

DbName == "test_db"

----------------------------------------------------------------------------
(* The store file                                                          *)

\* A path that is not a file yet.
NoFile ==
    [exists |-> FALSE, tabs |-> {}, rows |-> [t \in PairTables |-> {}],
     views |-> {}, features |-> FALSE, cols |-> <<>>, dflt |-> <<>>,
     reg |-> <<>>, trigger |-> FALSE, meta |-> <<>>]

\* Database.create: a file holding only __version and __meta.
create(s) == [s EXCEPT !.exists = TRUE]

\* util.context_from_name: the context a table or feature name belongs to.
context_from_name(name) == "cnf"

\* util.prepend_context: the name of a scaffold object in a context.
prepend_context(feature, context) ==
    IF context = "cnf" THEN feature ELSE context \o "_" \o feature

\* The row a registry gets for a new identity: every column at its default.
DefaultRow(s) == [c \in DOMAIN s.cols |-> s.cols[c]]

----------------------------------------------------------------------------
(* Database.extract_infos                                                  *)

\* PRAGMA table_info of a view compiles the view's SELECT: it raises when
\* the table the view reads does not exist.
TableInfoRaises(s) ==
    \E v \in s.views :
        v = prepend_context("filename", "cnf") /\ "cnf" \notin s.tabs

FeatureInfo(table, column, default, virtual) ==
    [table |-> table, column |-> column, default |-> default,
     virtual |-> virtual, context |-> context_from_name(table),
     database |-> DbName]

extract_infos(s) ==
    LET tables == s.tabs \cup (IF s.features THEN {"features"} ELSE {})
        names  == s.tabs \cup s.views \cup DOMAIN s.cols
    IN  [ok |-> ~TableInfoRaises(s),
         contexts |-> IF tables \cup s.views = {} THEN {} ELSE {"cnf"},
         tables |-> tables,
         views |-> s.views,
         infos |-> [n \in names |->
                      IF n \in s.tabs THEN FeatureInfo(n, "value", None, FALSE)
                      ELSE IF n \in s.views THEN FeatureInfo(n, "value", None, TRUE)
                      ELSE FeatureInfo("features", n, Some(s.dflt[n]), FALSE)]]

----------------------------------------------------------------------------
(* Database.init_database                                                  *)

\* Each statement runs on a connection of its own that is never committed
\* nor closed.  The DDL statements commit themselves.  The back-fill of
\* line 166 is DML: it opens a transaction that nothing commits.  Where the
\* interpreter finalizes the connection at once (`prompt`), the back-fill is
\* rolled back and the trigger is created; where the connection lingers, it
\* keeps the write lock and CREATE TRIGGER raises "database is locked".
init_database(s, dbinfo, prompt) ==
    IF dbinfo.contexts = {} THEN [ok |-> TRUE, store |-> s]
    ELSE
      LET local    == prepend_context("local", "cnf")
          filename == prepend_context("filename", "cnf")
          hashv    == prepend_context("hash", "cnf")
          features == prepend_context("features", "cnf")
          s1 == IF local \in dbinfo.tables THEN s
                ELSE [s EXCEPT !.tabs = @ \cup {local}, !.rows[local] = {}]
          s2 == [s1 EXCEPT !.views = @ \cup {filename, hashv}]
      IN  IF features \in dbinfo.tables THEN [ok |-> TRUE, store |-> s2]
          ELSE LET s3 == [s2 EXCEPT !.features = TRUE, !.cols = <<>>, !.dflt = <<>>,
                                      !.reg = <<>>]
               IN  IF prompt
                   THEN [ok |-> TRUE, store |-> [s3 EXCEPT !.trigger = TRUE]]
                   ELSE [ok |-> FALSE, store |-> s3]

----------------------------------------------------------------------------
(* Texts as the SQL engine reads them                                      *)

Digits == {"0", "1", "2", "3", "4", "5", "6", "7", "8", "9"}

DigitValue(c) ==
    CASE c = "0" -> 0 [] c = "1" -> 1 [] c = "2" -> 2 [] c = "3" -> 3
      [] c = "4" -> 4 [] c = "5" -> 5 [] c = "6" -> 6 [] c = "7" -> 7
      [] c = "8" -> 8 [] c = "9" -> 9

\* The characters of the set [^0-9.e\-] of feature_values' GLOB patterns: in
\* a GLOB set the backslash stands for itself and the final - is literal.
GlobSetChars == Digits \cup {".", "e", "\\", "-"}

\* value GLOB "*[^0-9.e\-]*": some character is outside the set.
GlobOutside(t) == \E i \in 1..Len(t) : t[i] \notin GlobSetChars

\* value LIKE "_%": at least one character.
LikeNonEmpty(t) == Len(t) >= 1

\* The length of the longest prefix of t made of digits, from position i.
RECURSIVE DigitRun(_, _)
DigitRun(t, i) ==
    IF i <= Len(t) /\ t[i] \in Digits THEN 1 + DigitRun(t, i + 1) ELSE 0

\* The number written by the digits t[i..j] (0 when there are none).
RECURSIVE DigitsValue(_, _, _)
DigitsValue(t, i, j) ==
    IF j < i THEN 0 ELSE 10 * DigitsValue(t, i, j - 1) + DigitValue(t[j])

DigitChar(d) ==
    CASE d = 0 -> "0" [] d = 1 -> "1" [] d = 2 -> "2" [] d = 3 -> "3"
      [] d = 4 -> "4" [] d = 5 -> "5" [] d = 6 -> "6" [] d = 7 -> "7"
      [] d = 8 -> "8" [] d = 9 -> "9"

\* str(n) of a number that is not negative
RECURSIVE Str(_)
Str(n) == IF n < 10 THEN <<DigitChar(n)>> ELSE Str(n \div 10) \o <<DigitChar(n % 10)>>

\* The value a column gets from DEFAULT <expr>, for the expressions of the
\* model: a quoted text is the text between the quotes, an integer literal
\* is the integer's text, a bare word is taken for its text.  PRAGMA
\* table_info reports the expression as it was written.
DefaultValue(expr) ==
    IF Len(expr) >= 2 /\ expr[1] = "'" /\ expr[Len(expr)] = "'"
    THEN SubSeq(expr, 2, Len(expr) - 1)
    ELSE IF expr # <<>> /\ DigitRun(expr, 1) = Len(expr)
    THEN Str(DigitsValue(expr, 1, Len(expr)))
    ELSE expr

\* A decimal number neg * m * 10^e, m without trailing zeros (exact: the
\* engine's REAL and INTEGER results of the texts of the model compare alike).
RECURSIVE Normal(_, _, _)
Normal(neg, m, e) ==
    IF m = 0 THEN [neg |-> FALSE, m |-> 0, e |-> 0]
    ELSE IF m % 10 = 0 THEN Normal(neg, m \div 10, e + 1)
    ELSE [neg |-> neg, m |-> m, e |-> e]

RECURSIVE TenTo(_)
TenTo(k) == IF k = 0 THEN 1 ELSE 10 * TenTo(k - 1)

\* CAST(t AS NUMERIC): the longest prefix of t that is a number (optional
\* sign, digits, optional point and digits, optional exponent with at least
\* one digit), and 0 when that prefix has no digit.
CastNumeric(t) ==
    LET signed == Len(t) >= 1 /\ t[1] \in {"-", "+"}
        neg    == Len(t) >= 1 /\ t[1] = "-"
        i0     == IF signed THEN 2 ELSE 1
        nInt   == DigitRun(t, i0)
        i1     == i0 + nInt
        point  == i1 <= Len(t) /\ t[i1] = "."
        nFrac  == IF point THEN DigitRun(t, i1 + 1) ELSE 0
        i2     == IF point THEN i1 + 1 + nFrac ELSE i1
        hasE   == i2 <= Len(t) /\ t[i2] \in {"e", "E"}
        eSign  == hasE /\ i2 + 1 <= Len(t) /\ t[i2 + 1] \in {"-", "+"}
        eNeg   == eSign /\ t[i2 + 1] = "-"
        i3     == IF eSign THEN i2 + 2 ELSE i2 + 1
        nExp   == IF hasE THEN DigitRun(t, i3) ELSE 0
        expo   == IF nExp = 0 THEN 0
                  ELSE (IF eNeg THEN -1 ELSE 1) * DigitsValue(t, i3, i3 + nExp - 1)
        mant   == DigitsValue(t, i0, i1 - 1)
        frac   == IF point THEN DigitsValue(t, i1 + 1, i1 + nFrac) ELSE 0
    IN  IF nInt + nFrac = 0 THEN Normal(FALSE, 0, 0)
        ELSE Normal(neg, mant * TenTo(nFrac) + frac, expo - nFrac)

RECURSIVE NumDigits(_)
NumDigits(m) == IF m < 10 THEN 1 ELSE 1 + NumDigits(m \div 10)

\* x < y for two positive normal decimals.
MagLess(x, y) ==
    LET ox == NumDigits(x.m) + x.e
        oy == NumDigits(y.m) + y.e
        k  == IF x.e < y.e THEN x.e ELSE y.e
    IN  IF ox # oy THEN ox < oy
        ELSE x.m * TenTo(x.e - k) < y.m * TenTo(y.e - k)

\* x < y for two normal decimals.
NumLess(x, y) ==
    IF x.m = 0 THEN (y.m # 0 /\ ~y.neg)
    ELSE IF y.m = 0 THEN x.neg
    ELSE IF x.neg # y.neg THEN x.neg
    ELSE IF x.neg THEN MagLess(y, x) ELSE MagLess(x, y)

\* SQL MIN and MAX of a set of numbers: NULL (None) for no rows.
SqlMin(S) == IF S = {} THEN None
             ELSE Some(CHOOSE x \in S : \A y \in S : ~NumLess(y, x))

SqlMax(S) == IF S = {} THEN None
             ELSE Some(CHOOSE x \in S : \A y \in S : ~NumLess(x, y))

\* The literals of IN ('...') built by "', '".join(list): an empty list
\* gives IN (''), the one literal of the empty text.
InList(list) == IF list = <<>> THEN {EmptyText} ELSE Range(list)

\* Python's truth value of an optional text.
Truthy(opt) == opt # None /\ opt[1] # EmptyText

\* REPLACE(value, RTRIM(value, REPLACE(value, '/', '')), ''): the text after
\* the last '/'.
RECURSIVE Basename(_)
Basename(t) ==
    IF \E i \in 1..Len(t) : t[i] = "/"
    THEN Basename(SubSeq(t, 2, Len(t)))
    ELSE t

----------------------------------------------------------------------------
(* The SQL statements of db.py, each as the engine runs it: the error class *)
(* it raises ("ok" for none) and the store it leaves.  A statement that     *)
(* raises changes nothing.                                                  *)

Raise(err, s) == [err |-> err, store |-> s]

Done(s) == [err |-> "ok", store |-> s]

\* The trigger features_dval: INSERT OR IGNORE INTO features (hash).
FireTrigger(s, hs) ==
    IF ~s.trigger THEN s
    ELSE [s EXCEPT !.reg = [h \in DOMAIN s.reg \cup hs |->
                              IF h \in DOMAIN s.reg THEN s.reg[h]
                              ELSE DefaultRow(s)]]

\* An insert that skips the rows that break a constraint: INSERT OR IGNORE.
SqlInsertOrIgnore(s, method, table, column, value, hashes) ==
    IF hashes = <<>> \/ table \in s.views THEN Raise("OperationalError", s)
    ELSE IF table \in s.tabs /\ column = "value"
    THEN Done([s EXCEPT !.rows[table] = @ \cup {<<h, value>> : h \in Range(hashes)}])
    ELSE IF table = "features" /\ s.features /\ column \in DOMAIN s.cols
    THEN Done([s EXCEPT !.reg =
                 [h \in DOMAIN s.reg \cup Range(hashes) |->
                    IF h \in DOMAIN s.reg THEN s.reg[h]
                    ELSE [DefaultRow(s) EXCEPT ![column] = value]]])
    ELSE Raise("OperationalError", s)

\* <method> INTO <table> (hash, <column>) VALUES ("h1", "v"), ("h2", "v"), ...
SqlInsert(s, method, table, column, value, hashes) ==
    LET hs   == Range(hashes)
        dups == Cardinality(hs) # Len(hashes)
        new  == {<<h, value>> : h \in hs}
    IN  IF hashes = <<>> THEN Raise("OperationalError", s)
        ELSE IF table \in s.views THEN Raise("OperationalError", s)
        ELSE IF table \in s.tabs /\ column = "value"
        THEN IF table = "local"
             THEN Done(FireTrigger([s EXCEPT !.rows[table] = @ \cup new], hs))
             ELSE IF method = "INSERT" /\ (dups \/ new \cap s.rows[table] # {})
             THEN Raise("IntegrityError", s)
             ELSE Done([s EXCEPT !.rows[table] = @ \cup new])
        ELSE IF table = "features" /\ s.features /\ column \in DOMAIN s.cols
        THEN IF method = "INSERT" /\ (dups \/ hs \cap DOMAIN s.reg # {})
             THEN Raise("IntegrityError", s)
             ELSE Done([s EXCEPT !.reg =
                          [h \in DOMAIN s.reg \cup hs |->
                             IF h \in hs
                             THEN [DefaultRow(s) EXCEPT ![column] = value]
                             ELSE s.reg[h]]])
        ELSE Raise("OperationalError", s)

\* DELETE FROM <table> WHERE <hash or value> IN (<literals>); field 1 is
\* hash, field 2 is value.
SqlDelete(s, table, field, literals) ==
    IF table \in s.views THEN Raise("OperationalError", s)
    ELSE IF table \in s.tabs
    THEN Done([s EXCEPT !.rows[table] = {r \in @ : r[field] \notin literals}])
    ELSE Raise("OperationalError", s)

\* ALTER TABLE <features> ADD <name> TEXT NOT NULL DEFAULT <default>
SqlAddColumn(s, features, name, default) ==
    IF features # "features" \/ ~s.features THEN Raise("OperationalError", s)
    ELSE IF name \in DOMAIN s.cols THEN Raise("OperationalError", s)
    ELSE Done([s EXCEPT
                 !.cols = [c \in DOMAIN s.cols \cup {name} |->
                             IF c = name THEN DefaultValue(default) ELSE s.cols[c]],
                 !.dflt = [c \in DOMAIN s.cols \cup {name} |->
                             IF c = name THEN default ELSE s.dflt[c]],
                 !.reg = [h \in DOMAIN s.reg |->
                            [c \in DOMAIN s.cols \cup {name} |->
                               IF c = name THEN DefaultValue(default) ELSE s.reg[h][c]]]])

\* CREATE TABLE IF NOT EXISTS <name> (hash, value, UNIQUE(hash, value))
SqlCreatePairTable(s, name) ==
    IF name \in s.tabs \cup s.views \/ (name = "features" /\ s.features)
    THEN Done(s)
    ELSE Done([s EXCEPT !.tabs = @ \cup {name}, !.rows[name] = {}])

\* DROP TABLE IF EXISTS <name>; a table's triggers go with it.
SqlDropTable(s, name) ==
    IF name \in s.views THEN Raise("OperationalError", s)
    ELSE IF name \in s.tabs
    THEN Done([s EXCEPT !.tabs = @ \ {name}, !.rows[name] = {},
                        !.trigger = IF name = "local" THEN FALSE ELSE @])
    ELSE Done(s)

\* The distinct texts of a feature's column, or that the SELECT raises.
ColumnTexts(s, table, column) ==
    IF table \in s.tabs /\ column = "value"
    THEN [err |-> "ok", texts |-> {r[2] : r \in s.rows[table]}]
    ELSE IF table = "hash" /\ table \in s.views /\ "local" \in s.tabs
    THEN [err |-> "ok", texts |-> {r[1] : r \in s.rows["local"]}]
    ELSE IF table = "filename" /\ table \in s.views /\ "cnf" \in s.tabs
    THEN [err |-> "ok", texts |-> {Basename(r[2]) : r \in s.rows["cnf"]}]
    ELSE IF table = "features" /\ s.features /\ column \in DOMAIN s.cols
    THEN [err |-> "ok", texts |-> {s.reg[h][column] : h \in DOMAIN s.reg}]
    ELSE [err |-> "OperationalError", texts |-> {}]

----------------------------------------------------------------------------
(* The record of the last call                                             *)

\* The arguments of a call (create_feature's optional default is kept in
\* `values`).
Args(feature, value, hashes, values, force) ==
    [feature |-> feature, value |-> value, hashes |-> hashes,
     values |-> values, force |-> force]

NoArgs == Args("", EmptyText, <<>>, <<>>, FALSE)

\* The operation, its arguments, the class of the error it raised ("ok" for
\* none) and what it returned.
Call(op, args, err, ret) ==
    [op |-> op, feature |-> args.feature, value |-> args.value,
     hashes |-> args.hashes, values |-> args.values, force |-> args.force,
     err |-> err, ret |-> ret]

NoRet == <<>>

----------------------------------------------------------------------------
(* Database.__init__: the registry of the stores and the connection        *)

\* The paths a path list may hold.
MaxPaths == 3

\* The path of the store file of the specifications with one store.
StorePath == <<"t", "e", "s", "t", ".", "d", "b">>

\* Store files, two of them with the same file name, and a CSV file.
FedPaths ==
    {<<"x", ".", "d", "b">>, <<"a", "/", "x", ".", "d", "b">>,
     <<"y", ".", "d", "b">>, <<"1", ".", "d", "b">>, <<"t", ".", "c", "s", "v">>}

\* The paths that are files but no store files: they are imported as CSV.
CsvPaths == {<<"t", ".", "c", "s", "v">>}

\* "file::memory:?cache=shared"
MemoryPath ==
    <<"f", "i", "l", "e", ":", ":", "m", "e", "m", "o", "r", "y", ":", "?",
      "c", "a", "c", "h", "e", "=", "s", "h", "a", "r", "e", "d">>

\* util.make_alnum_ul: every character that is no letter, digit or
\* underscore becomes an underscore.
make_alnum_ul(t) ==
    LET alnum_ul ==
            {"a", "b", "c", "d", "e", "f", "g", "h", "i", "j", "k", "l", "m",
             "n", "o", "p", "q", "r", "s", "t", "u", "v", "w", "x", "y", "z",
             "_"} \cup Digits
    IN  [i \in 1..Len(t) |-> IF t[i] \in alnum_ul THEN t[i] ELSE "_"]

NoConnection == [path |-> None, attached |-> <<>>]

\* extract_infos, lines 106 to 108: the entry of the store is put under its
\* name; main is set for the entry made while the registry is empty. An
\* entry put under a name the registry has takes the place of the old one.
register(infos, path) ==
    LET dbname  == make_alnum_ul(Basename(path))
        firstdb == Len(infos) = 0
        entry   == [name |-> dbname, path |-> path, main |-> firstdb]
    IN  IF \E i \in 1..Len(infos) : infos[i].name = dbname
        THEN [i \in 1..Len(infos) |->
                 IF infos[i].name = dbname THEN entry ELSE infos[i]]
        ELSE Append(infos, entry)

\* The first loop of __init__, from path i on: a path that is no file is
\* created and registered, a store file is checked and registered, any other
\* file is imported as CSV into the in-memory store.
RECURSIVE RegisterPaths(_, _, _)
RegisterPaths(infos, path_list, i) ==
    IF i > Len(path_list) THEN infos
    ELSE RegisterPaths(IF path_list[i] \in CsvPaths THEN infos
                       ELSE register(infos, path_list[i]),
                       path_list, i + 1)

\* database_infos after the first loop and the registration of the
\* in-memory store.
Registry(path_list) == register(RegisterPaths(<<>>, path_list, 1), MemoryPath)

\* The second loop of __init__, from entry i on: the main store opens
\* self.connection and self.cursor, every other store is attached through
\* self.cursor. `locked` tells whether init_database of the in-memory store
\* that holds imported tables ends with "database table is locked".
RECURSIVE ConnectFrom(_, _, _, _)
ConnectFrom(infos, locked, i, c) ==
    IF i > Len(infos) THEN [err |-> "ok", connection |-> c]
    ELSE IF infos[i].path = MemoryPath /\ locked
    THEN [err |-> "OperationalError", connection |-> c]
    ELSE IF infos[i].main
    THEN ConnectFrom(infos, locked, i + 1, [c EXCEPT !.path = Some(infos[i].path)])
    ELSE IF c.path = None
    THEN [err |-> "AttributeError", connection |-> c]
    ELSE IF infos[i].name[1] \in Digits
    THEN [err |-> "OperationalError", connection |-> c]
    ELSE ConnectFrom(infos, locked, i + 1,
                     [c EXCEPT !.attached = Append(@, infos[i].name)])

Connect(infos, locked) == ConnectFrom(infos, locked, 1, NoConnection)

----------------------------------------------------------------------------
(* Database.__init__ and Database.__exit__                                 *)

Construct ==
    /\ pc = "closed"
    /\ \E prompt \in BOOLEAN :
         LET s0 == IF store.exists THEN store ELSE create(store)
             ex == extract_infos(s0)
             r  == init_database(s0, ex, prompt)
         IN  IF ~ex.ok
             THEN /\ store' = s0
                  /\ last' = Call("init", NoArgs, "OperationalError", NoRet)
                  /\ UNCHANGED <<pc, feature_infos, database_infos, connection>>
             ELSE IF ~r.ok
             THEN /\ store' = r.store
                  /\ last' = Call("init", NoArgs, "OperationalError", NoRet)
                  /\ UNCHANGED <<pc, feature_infos, database_infos, connection>>
             ELSE /\ store' = r.store
                  /\ pc' = "open"
                  /\ feature_infos' = ex.infos
                  /\ database_infos' = Registry(<<StorePath>>)
                  /\ connection' = Connect(Registry(<<StorePath>>), FALSE).connection
                  /\ last' = Call("init", NoArgs, "ok", NoRet)
    /\ UNCHANGED <<fpvars, runvars>>

Exit ==
    /\ pc = "open"
    /\ pc' = "closed"
    /\ feature_infos' = <<>>
    /\ database_infos' = <<>>
    /\ connection' = NoConnection
    /\ last' = Call("exit", NoArgs, "ok", NoRet)
    /\ UNCHANGED <<store, fpvars, runvars>>

\* Database(path_list) over new and empty store files and CSV files; the
\* call record keeps the path list.
ConstructFederation(path_list) ==
    /\ pc = "closed"
    /\ \E locked \in BOOLEAN :
         LET infos == Registry(path_list)
             c     == Connect(infos, locked /\ Range(path_list) \cap CsvPaths # {})
         IN  /\ last' = Call("init", Args("", EmptyText, path_list, <<>>, FALSE),
                             c.err, NoRet)
             /\ IF c.err = "ok"
                THEN /\ pc' = "open"
                     /\ database_infos' = infos
                     /\ connection' = c.connection
                ELSE UNCHANGED <<pc, database_infos, connection>>
    /\ UNCHANGED <<store, feature_infos, fpvars, runvars>>

----------------------------------------------------------------------------
(* The feature operations of Database                                      *)

\* A call on the open object that ends with r = [err, store].
Returns(op, args, r, ret) ==
    /\ store' = r.store
    /\ last' = Call(op, args, r.err, ret)
    /\ UNCHANGED <<pc, feature_infos, database_infos, connection, fpvars, runvars>>

create_feature_result(s, name, default_value) ==
    IF default_value # None
    THEN SqlAddColumn(s, prepend_context("features", context_from_name(name)),
                      name, default_value[1])
    ELSE SqlCreatePairTable(s, name)

create_feature(name, default_value) ==
    /\ pc = "open"
    /\ Returns("create_feature", Args(name, EmptyText, <<>>, default_value, FALSE),
               create_feature_result(store, name, default_value), NoRet)

delete_feature_result(s, infos, name) ==
    IF name \notin DOMAIN infos THEN Raise("KeyError", s)
    ELSE IF infos[name].column = "value"
    THEN SqlDropTable(s, name)   \* DROP TRIGGER IF EXISTS <name>_dval: none has that name
    ELSE Raise("DatabaseException", s)

delete_feature(name) ==
    /\ pc = "open"
    /\ Returns("delete_feature", Args(name, EmptyText, <<>>, <<>>, FALSE),
               delete_feature_result(store, feature_infos, name), NoRet)

\* An insert that always runs a plain INSERT, whatever force says.
insert_never_replaces(s, infos, feature, value, hashes, force) ==
    IF feature \notin DOMAIN infos THEN Raise("KeyError", s)
    ELSE SqlInsert(s, "INSERT", infos[feature].table, infos[feature].column,
                   value, hashes)

insert_result(s, infos, feature, value, hashes, force) ==
    IF feature \notin DOMAIN infos THEN Raise("KeyError", s)
    ELSE LET info   == infos[feature]
             method == IF force /\ Truthy(info.default) THEN "REPLACE" ELSE "INSERT"
         IN  SqlInsert(s, method, info.table, info.column, value, hashes)

insert(feature, value, hashes, force) ==
    /\ pc = "open"
    /\ Returns("insert", Args(feature, value, hashes, <<>>, force),
               insert_result(store, feature_infos, feature, value, hashes, force),
               NoRet)

delete_hashes_result(s, infos, feature, hashes) ==
    IF feature \notin DOMAIN infos THEN Raise("KeyError", s)
    ELSE IF infos[feature].default = None
    THEN SqlDelete(s, feature, 1, InList(hashes))
    ELSE insert_result(s, infos, feature, infos[feature].default[1], hashes, TRUE)

delete_hashes(feature, hashes) ==
    /\ pc = "open"
    /\ Returns("delete_hashes", Args(feature, EmptyText, hashes, <<>>, FALSE),
               delete_hashes_result(store, feature_infos, feature, hashes), NoRet)

\* With a default the statement is "UPDATE TABLE ...", which does not parse.
delete_values_result(s, infos, feature, values) ==
    IF feature \notin DOMAIN infos THEN Raise("KeyError", s)
    ELSE IF infos[feature].default = None
    THEN SqlDelete(s, feature, 2, InList(values))
    ELSE Raise("OperationalError", s)

delete_values(feature, values) ==
    /\ pc = "open"
    /\ Returns("delete_values", Args(feature, EmptyText, <<>>, values, FALSE),
               delete_values_result(store, feature_infos, feature, values), NoRet)

\* A delete that drops the value list: it removes every row of the identities.
delete_by_identity_only(s, infos, feature, values, hashes) ==
    delete_hashes_result(s, infos, feature, hashes)

\* delete(feature, values, identities) of the tested Database: with both
\* lists given it removes the rows that match both (the action takes these
\* calls); with one list it is the identity-scoped or the value-scoped
\* deletion.
delete_result(s, infos, feature, values, hashes) ==
    IF feature \notin DOMAIN infos THEN Raise("KeyError", s)
    ELSE IF hashes # <<>> /\ values = <<>>
    THEN delete_hashes_result(s, infos, feature, hashes)
    ELSE IF hashes = <<>>
    THEN delete_values_result(s, infos, feature, values)
    ELSE IF infos[feature].default = None
    THEN IF feature \in s.tabs
         THEN Done([s EXCEPT !.rows[feature] =
                      {r \in @ : ~(r[1] \in Range(hashes) /\ r[2] \in Range(values))}])
         ELSE Raise("OperationalError", s)
    ELSE LET col == infos[feature].column
         IN  IF s.features /\ col \in DOMAIN s.cols
             THEN Done([s EXCEPT !.reg =
                          [h \in DOMAIN s.reg |->
                             IF h \in Range(hashes) /\ s.reg[h][col] \in Range(values)
                             THEN [s.reg[h] EXCEPT ![col] = s.cols[col]]
                             ELSE s.reg[h]]])
             ELSE Raise("OperationalError", s)

delete(feature, values, hashes) ==
    /\ pc = "open"
    /\ hashes # <<>> /\ values # <<>>
    /\ Returns("delete", Args(feature, EmptyText, hashes, values, FALSE),
               delete_result(store, feature_infos, feature, values, hashes), NoRet)

\* Database.execute with the statement a local-path record is written by:
\* INSERT INTO local (hash, value) VALUES ("h", "path").
execute_insert_local(hash, path) ==
    /\ pc = "open"
    /\ Returns("execute", Args("local", path, <<hash>>, <<>>, FALSE),
               SqlInsert(store, "INSERT", "local", "value", path, <<hash>>), NoRet)

\* The classification of feature_values over the distinct texts of a column.
Classify(texts) ==
    LET numeric == {t \in texts : ~GlobOutside(t) /\ LikeNonEmpty(t)}
        casts   == {CastNumeric(t) : t \in numeric}
    IN  [numeric  |-> <<SqlMin(casts), SqlMax(casts)>>,
         discrete |-> {t \in texts : GlobOutside(t) \/ ~LikeNonEmpty(t)}]

feature_values_result(s, infos, feature) ==
    IF feature \notin DOMAIN infos THEN [err |-> "KeyError", ret |-> NoRet]
    ELSE LET q == ColumnTexts(s, infos[feature].table, infos[feature].column)
         IN  IF q.err # "ok" THEN [err |-> q.err, ret |-> NoRet]
             ELSE [err |-> "ok", ret |-> Classify(q.texts)]

feature_values(feature) ==
    /\ pc = "open"
    /\ LET r == feature_values_result(store, feature_infos, feature)
       IN  last' = Call("feature_values", Args(feature, EmptyText, <<>>, <<>>, FALSE),
                        r.err, r.ret)
    /\ UNCHANGED <<pc, store, feature_infos, database_infos, connection, fpvars, runvars>>

\* Database.features
features(tables, views, database) ==
    {f \in DOMAIN feature_infos :
        /\ ~(~views /\ feature_infos[f].virtual)
        /\ ~(~tables /\ ~feature_infos[f].virtual)
        /\ ~(database # "" /\ database # feature_infos[f].database)}

\* The existence check of a feature: it is listed among tables or views.
fexists(feature) == feature \in features(TRUE, TRUE, "")

----------------------------------------------------------------------------
(* The __meta table: one JSON blob per table name                          *)

\* The table names, keys and values the meta operations are called with.
MetaTables == {"f", "g"}

MetaKeys == {<<"k">>, <<"l">>}

MetaValues == {<<"x">>, <<"y">>}

\* json.dumps(values): the text of the dictionary. EmptyBlob is the text ''
\* that meta_clear writes when no key is given.
json_dumps(values) == [empty |-> FALSE, dict |-> values]

EmptyBlob == [empty |-> TRUE, dict |-> <<>>]

\* self.query("SELECT value FROM __meta WHERE name = ..."): fetchall gives
\* the list of the rows, and name is UNIQUE.
SqlSelectMeta(s, table) ==
    IF table \in DOMAIN s.meta THEN << <<s.meta[table]>> >> ELSE <<>>

\* "REPLACE INTO __meta (name, value) VALUES (table, blob)"
SqlReplaceMeta(s, table, blob) ==
    Done([s EXCEPT !.meta = (table :> blob) @@ s.meta])

\* json.loads(blob or "{}"): the empty list is falsy and "{}" is parsed; a
\* list of rows is not a text and json.loads raises TypeError.
json_loads(blob) ==
    IF blob = <<>> THEN [err |-> "ok", ret |-> <<>>]
    ELSE [err |-> "TypeError", ret |-> NoRet]

meta_record_result(s, table) == json_loads(SqlSelectMeta(s, table))

meta_record(table) ==
    /\ pc = "open"
    /\ LET r == meta_record_result(store, table)
       IN  last' = Call("meta_record", Args(table, EmptyText, <<>>, <<>>, FALSE),
                        r.err, r.ret)
    /\ UNCHANGED <<pc, store, feature_infos, database_infos, connection, fpvars, runvars>>

\* The key of a meta call is recorded in the call's list of identities.
meta_clear_result(s, table, meta_feature) ==
    IF meta_feature = EmptyText
    THEN SqlReplaceMeta(s, table, EmptyBlob)
    ELSE LET values == meta_record_result(s, table)
         IN  IF values.err # "ok" THEN Raise(values.err, s)
             ELSE SqlReplaceMeta(s, table,
                      json_dumps([k \in DOMAIN values.ret \ {meta_feature}
                                     |-> values.ret[k]]))

meta_clear(table, meta_feature) ==
    /\ pc = "open"
    /\ Returns("meta_clear", Args(table, EmptyText, <<meta_feature>>, <<>>, FALSE),
               meta_clear_result(store, table, meta_feature), NoRet)

meta_set_result(s, table, meta_feature, value) ==
    LET values == meta_record_result(s, table)
    IN  IF values.err # "ok" THEN Raise(values.err, s)
        ELSE SqlReplaceMeta(s, table,
                 json_dumps((meta_feature :> value) @@ values.ret))

meta_set(table, meta_feature, value) ==
    /\ pc = "open"
    /\ Returns("meta_set", Args(table, value, <<meta_feature>>, <<>>, FALSE),
               meta_set_result(store, table, meta_feature, value), NoRet)

----------------------------------------------------------------------------
(* init.compute_degree_sequence_hash                                       *)

\* A line of an instance file: `head` is "c" or "p" for a comment or problem
\* line and "" otherwise; `toks` are the numbers line.split() gives.
Line(head, toks) == [head |-> head, toks |-> toks]

Literals == VarNumbers \cup {-v : v \in VarNumbers}

\* Clause lines (literals and the terminating 0), the blank line, a comment
\* line and the problem line.
Lines ==
    {Line("", lits \o <<0>>) : lits \in UNION {[1..n -> Literals] : n \in 0..MaxLits}}
    \cup {Line("", <<>>), Line("c", <<>>), Line("p", <<>>)}

Instances == UNION {[1..n -> Lines] : n \in 0..MaxLines}

Abs(n) == IF n < 0 THEN -n ELSE n

\* degrees[abs(num)] = ... : the dict keeps its keys in insertion order.
CountLiteral(degrees, num) ==
    LET at == {i \in 1..Len(degrees) : degrees[i].var = Abs(num)}
    IN  IF at = {}
        THEN Append(degrees, [var |-> Abs(num),
                              pos |-> IF num < 0 THEN 0 ELSE 1,
                              neg |-> IF num < 0 THEN 1 ELSE 0])
        ELSE [i \in 1..Len(degrees) |->
                IF i \in at
                THEN IF num < 0
                     THEN [degrees[i] EXCEPT !.neg = @ + 1]
                     ELSE [degrees[i] EXCEPT !.pos = @ + 1]
                ELSE degrees[i]]

\* for lit in line.split()[:-1]
RECURSIVE CountTokens(_, _, _)
CountTokens(degrees, toks, i) ==
    IF i >= Len(toks) THEN degrees
    ELSE CountTokens(CountLiteral(degrees, toks[i]), toks, i + 1)

\* for line in f: if line and line[0] not in ['p', 'c']
RECURSIVE CountLines(_, _, _)
CountLines(degrees, lines, i) ==
    IF i > Len(lines) THEN degrees
    ELSE LET line == lines[i]
         IN  IF line.toks # <<>> /\ line.head \notin {"p", "c"}
             THEN CountLines(CountTokens(degrees, line.toks, 1), lines, i + 1)
             ELSE CountLines(degrees, lines, i + 1)

\* key=lambda t: (t[0]+t[1], abs(t[0]-t[1]))
SortKey(t) == <<t.pos + t.neg, Abs(t.pos - t.neg)>>

KeyLess(a, b) == a[1] < b[1] \/ (a[1] = b[1] /\ a[2] < b[2])

\* list.sort is stable: an element goes after those whose key is not greater.
SortInsert(sorted, t) ==
    LET k == Cardinality({i \in 1..Len(sorted) :
                            ~KeyLess(SortKey(t), SortKey(sorted[i]))})
    IN  SubSeq(sorted, 1, k) \o <<t>> \o SubSeq(sorted, k + 1, Len(sorted))

RECURSIVE SortFrom(_, _, _)
SortFrom(sorted, list, i) ==
    IF i > Len(list) THEN sorted
    ELSE SortFrom(SortInsert(sorted, list[i]), list, i + 1)

\* A degree list that is left in the order of the dict.
list_unsorted(degree_list) == degree_list

list_sort(degree_list) == SortFrom(<<>>, degree_list, 1)

\* The bytes hash_md5.update is given, for the degree list from position i.
RECURSIVE Feed(_, _)
Feed(degree_list, i) ==
    IF i > Len(degree_list) THEN <<>>
    ELSE Str(SortKey(degree_list[i])[1]) \o <<" ">>
         \o Str(SortKey(degree_list[i])[2]) \o <<" ">>
         \o Feed(degree_list, i + 1)

\* hash_md5.hexdigest(): the digest of the bytes fed (equal bytes, equal
\* digest; the digests of different bytes are taken to differ).
hexdigest(bytes) == [md5 |-> bytes]

compute_degree_sequence_hash(hashvalue, lines) ==
    LET degree_list == list_sort(CountLines(<<>>, lines, 1))
    IN  [hashvalue  |-> hashvalue,
         attributes |-> << <<"REPLACE", "degree_sequence_hash",
                             hexdigest(Feed(degree_list, 1))>> >>]

\* The fingerprint of the instance file is computed.
Fingerprint ==
    /\ fp = <<>>
    /\ fp' = compute_degree_sequence_hash(<<"a">>, instance)
    /\ UNCHANGED <<instance, dbvars, runvars>>

----------------------------------------------------------------------------
(* init.run                                                                *)

\* The instance files on disk: a file name that is not here cannot be opened.
Files ==
    [n \in {"one.cnf", "two.cnf"} |->
        IF n = "one.cnf" THEN <<Line("", <<1, -2, 0>>)>>
        ELSE <<Line("p", <<>>), Line("", <<1, 2, 0>>), Line("", <<-1, 0>>)>>]

FileNames == {"one.cnf", "two.cnf", "gone.cnf"}

\* The records of a result set: cell 1 holds the identity, cell 2 the file
\* names of the identity; a cell is the list that cell.split(',') gives.
Record(i, filename) == << << <<"h", DigitChar(i)>> >>, <<filename>> >>

ResultSets ==
    UNION {{[i \in 1..n |-> Record(i, names[i])] : names \in [1..n -> FileNames]} :
             n \in 0..MaxRecords}

\* func(hashvalue, filename), for func = compute_degree_sequence_hash: the
\* open of a file that is not there raises.
func(hashvalue, filename) ==
    IF filename \notin DOMAIN Files
    THEN [raised |-> TRUE, result |-> <<>>]
    ELSE [raised |-> FALSE,
          result |-> compute_degree_sequence_hash(hashvalue, Files[filename])]

\* hashvalue = result[0].split(',')[0]; filename = result[1].split(',')[0]
Compute(result) == func(result[1][1], result[2][1])

\* api.callback_set_attributes_locked: the attributes of the result are
\* written to the identity, one after the other.
RECURSIVE callback_set_attributes_locked(_, _, _)
callback_set_attributes_locked(attrs, result, i) ==
    IF i > Len(result.attributes) THEN attrs
    ELSE LET a   == result.attributes[i]
             h   == result.hashvalue
             old == IF h \in DOMAIN attrs THEN attrs[h] ELSE <<>>
             new == [f \in DOMAIN old \cup {a[2]} |-> IF f = a[2] THEN a[3] ELSE old[f]]
         IN  callback_set_attributes_locked(
                 [x \in DOMAIN attrs \cup {h} |-> IF x = h THEN new ELSE attrs[x]],
                 result, i + 1)

\* jobs = 1: the next record is computed and merged in the loop; what func
\* raises leaves run.
SeqStep ==
    /\ seq.pc = "loop"
    /\ seq.i <= Len(resultset)
    /\ LET r == Compute(resultset[seq.i])
       IN  seq' = IF r.raised
                  THEN [seq EXCEPT !.pc = "raised"]
                  ELSE [seq EXCEPT !.i = @ + 1,
                                   !.attrs = callback_set_attributes_locked(@, r.result, 1),
                                   !.merged = Append(@, seq.i)]
    /\ UNCHANGED <<resultset, par, dbvars, fpvars>>

SeqReturn ==
    /\ seq.pc = "loop"
    /\ seq.i > Len(resultset)
    /\ seq' = [seq EXCEPT !.pc = "done"]
    /\ UNCHANGED <<resultset, par, dbvars, fpvars>>

\* jobs > 1: pool.apply_async queues a task for the next record.
ParSubmit ==
    /\ par.pc = "submit"
    /\ par.i <= Len(resultset)
    /\ par' = [par EXCEPT !.i = @ + 1, !.queued = Append(@, par.i)]
    /\ UNCHANGED <<resultset, seq, dbvars, fpvars>>

\* pool.close(), and the wait of pool.join() begins.
ParClose ==
    /\ par.pc = "submit"
    /\ par.i > Len(resultset)
    /\ par' = [par EXCEPT !.pc = "join"]
    /\ UNCHANGED <<resultset, seq, dbvars, fpvars>>

\* A free worker takes the oldest queued task.
ParStart ==
    /\ par.queued # <<>>
    /\ Cardinality(par.running) < par.workers
    /\ par' = [par EXCEPT !.queued = Tail(@), !.running = @ \cup {Head(par.queued)}]
    /\ UNCHANGED <<resultset, seq, dbvars, fpvars>>

\* A worker finishes its task and puts the outcome, the value func returned
\* or the exception it raised, on the pool's result queue.
ParFinish(t) ==
    /\ t \in par.running
    /\ par' = [par EXCEPT !.running = @ \ {t}, !.results = Append(@, t)]
    /\ UNCHANGED <<resultset, seq, dbvars, fpvars>>

\* The result handler that starts on an outcome while a callback is merging.
HandleResultUnlocked ==
    /\ par.results # <<>>
    /\ LET t == Head(par.results)
       IN  par' = [par EXCEPT
                     !.results = Tail(@),
                     !.merging = IF Compute(resultset[t]).raised THEN @ ELSE @ \cup {t}]
    /\ UNCHANGED <<resultset, seq, dbvars, fpvars>>

\* The controlling process takes the oldest outcome off the result queue, one
\* at a time: for a value it enters the callback; an exception stays in the
\* task's AsyncResult, which nothing reads (no error_callback is given).
HandleResult ==
    /\ par.results # <<>>
    /\ par.merging = {}
    /\ LET t == Head(par.results)
       IN  par' = [par EXCEPT
                     !.results = Tail(@),
                     !.merging = IF Compute(resultset[t]).raised THEN @ ELSE @ \cup {t}]
    /\ UNCHANGED <<resultset, seq, dbvars, fpvars>>

\* The callback of a task writes the attributes of its result and returns.
CallbackEnd ==
    /\ \E t \in par.merging :
         par' = [par EXCEPT
                   !.merging = @ \ {t},
                   !.merged = Append(@, t),
                   !.attrs = callback_set_attributes_locked(
                                 @, Compute(resultset[t]).result, 1)]
    /\ UNCHANGED <<resultset, seq, dbvars, fpvars>>

\* pool.join() returns when every task has ended and the result handler has
\* handled every outcome.
ParJoin ==
    /\ par.pc = "join"
    /\ par.queued = <<>>
    /\ par.running = {}
    /\ par.results = <<>>
    /\ par.merging = {}
    /\ par' = [par EXCEPT !.pc = "done"]
    /\ UNCHANGED <<resultset, seq, dbvars, fpvars>>

----------------------------------------------------------------------------
(* init.register_benchmarks                                                *)

\* The times register_benchmarks is run over the same tree.
MaxRuns == 2

Cnf == <<".", "c", "n", "f">>

\* [".cnf", ".cnf.gz", ".cnf.lzma", ".cnf.xz", ".cnf.bz2"]
Suffixes ==
    {Cnf, Cnf \o <<".", "g", "z">>, Cnf \o <<".", "l", "z", "m", "a">>,
     Cnf \o <<".", "x", "z">>, Cnf \o <<".", "b", "z", "2">>}

\* path.endswith(suffix)
endswith(path, suffix) ==
    /\ Len(path) >= Len(suffix)
    /\ SubSeq(path, Len(path) - Len(suffix) + 1, Len(path)) = suffix

\* The files under the root: two instance files, a compressed one, and a file
\* that is no instance file.
WalkPaths ==
    {<<"a">> \o Cnf, <<"x">> \o Cnf, <<"a">> \o Cnf \o <<".", "x", "z">>, <<"a">>}

\* The files that cannot be read or decompressed when they are hashed.
Unreadable == {<<"x">> \o Cnf}

\* What os.walk yields: every file of the tree once.
Trees ==
    {t \in Lists(WalkPaths) : \A i, j \in 1..Len(t) : t[i] = t[j] => i = j}

\* gbd_hash(path): an identity computed from the content of the file.
gbd_hash(path) ==
    IF path \in Unreadable THEN [raised |-> TRUE, hashvalue |-> EmptyText]
    ELSE [raised |-> FALSE, hashvalue |-> <<"h">> \o path]

compute_hash(path) ==
    LET h == gbd_hash(path)
    IN  IF h.raised THEN [raised |-> TRUE, result |-> <<>>]
        ELSE [raised |-> FALSE,
              result |-> [hashvalue |-> h.hashvalue,
                          attributes |-> << <<"INSERT", "local", path>> >>]]

\* The walk reaches the next file: a file with a suffix of the list whose
\* path has no row in local is handed to the pool.
RegisterWalk ==
    /\ par.pc = "submit"
    /\ par.i <= Len(resultset)
    /\ LET path   == resultset[par.i]
           hashes == {r[1] : r \in {q \in store.rows["local"] : q[2] = path}}
       IN  par' = IF \E suffix \in Suffixes : endswith(path, suffix)
                  THEN IF hashes # {}
                       THEN [par EXCEPT !.i = @ + 1]
                       ELSE [par EXCEPT !.i = @ + 1,
                                        !.queued = Append(@, par.i),
                                        !.dispatched = Append(@, par.i)]
                  ELSE [par EXCEPT !.i = @ + 1]
    /\ UNCHANGED <<resultset, seq, dbvars, fpvars>>

\* The controlling process handles the oldest outcome: the callback inserts
\* the row (hashvalue, path) into local; an exception stays in the task's
\* AsyncResult, which nothing reads.
RegisterResult ==
    /\ par.results # <<>>
    /\ LET t == Head(par.results)
           c == compute_hash(resultset[t])
       IN  IF c.raised
           THEN /\ par' = [par EXCEPT !.results = Tail(@)]
                /\ UNCHANGED store
           ELSE /\ par' = [par EXCEPT !.results = Tail(@), !.merged = Append(@, t)]
                /\ store' = SqlInsert(store, c.result.attributes[1][1],
                                      c.result.attributes[1][2], "value",
                                      c.result.attributes[1][3],
                                      <<c.result.hashvalue>>).store
    /\ UNCHANGED <<pc, feature_infos, database_infos, connection, last, resultset, seq, fpvars>>

\* register_benchmarks is called again with the same root.
RegisterAgain ==
    /\ par.pc = "done"
    /\ par.run < MaxRuns
    /\ par' = [par EXCEPT !.pc = "submit", !.i = 1, !.run = @ + 1,
                          !.dispatched = <<>>, !.merged = <<>>]
    /\ UNCHANGED <<resultset, seq, dbvars, fpvars>>

----------------------------------------------------------------------------
(* init.remove_stale_benchmarks                                            *)

\* The paths that local rows are registered with.
Paths == {<<"x">>, <<"a">>}

\* os.path.isfile, for the paths that are files when the call is made.
isfile(files, path) == path \in Range(files)

\* api.database.value_query(q): the values of the first column of the rows.
value_query(s, table, field) ==
    IF table \in s.tabs
    THEN [err |-> "ok", ret |-> {r[field] : r \in s.rows[table]}]
    ELSE [err |-> "OperationalError", ret |-> {}]

\* api.database.submit(q), for the DELETE statements of the paths.
submit(s, table, field, literals) == SqlDelete(s, table, field, literals)

\* util.confirm: the answer to the prompt.
confirm(answer) == answer

\* remove_stale_benchmarks that deletes without asking.
remove_without_confirmation(s, files, answer) ==
    LET paths    == value_query(s, "local", 2)
        sanitize == {path \in paths.ret : ~isfile(files, path)}
    IN  IF paths.err # "ok" THEN [r |-> Raise(paths.err, s), sanitize |-> {}]
        ELSE IF sanitize # {}
        THEN [r |-> submit(s, "local", 2, sanitize), sanitize |-> sanitize]
        ELSE [r |-> Done(s), sanitize |-> sanitize]

\* The call ends with r; sanitize is the list of the paths it found stale.
remove_stale_benchmarks_result(s, files, answer) ==
    LET paths    == value_query(s, "local", 2)
        sanitize == {path \in paths.ret : ~isfile(files, path)}
    IN  IF paths.err # "ok" THEN [r |-> Raise(paths.err, s), sanitize |-> {}]
        ELSE IF sanitize # {} /\ confirm(answer)
        THEN [r |-> submit(s, "local", 2, sanitize), sanitize |-> sanitize]
        ELSE [r |-> Done(s), sanitize |-> sanitize]

\* The call record keeps the files of the disk, the answer and, in place of
\* a returned value, the paths found stale.
remove_stale_benchmarks(files, answer) ==
    /\ pc = "open"
    /\ LET c == remove_stale_benchmarks_result(store, files, answer)
       IN  Returns("remove_stale_benchmarks",
                   Args("local", EmptyText, <<>>, files, answer), c.r, c.sanitize)

----------------------------------------------------------------------------

\* The states of the parts a specification leaves alone.
DbIdle ==
    /\ pc = "closed"
    /\ store = NoFile
    /\ feature_infos = <<>>
    /\ database_infos = <<>>
    /\ connection = NoConnection
    /\ last = Call("none", NoArgs, "ok", NoRet)

FpIdle ==
    /\ instance = <<>>
    /\ fp = <<>>

RunIdle ==
    /\ resultset = <<>>
    /\ seq = [pc |-> "done", i |-> 1, attrs |-> <<>>, merged |-> <<>>]
    /\ par = [pc |-> "done", i |-> 1, workers |-> 1, queued |-> <<>>,
              running |-> {}, results |-> <<>>, merging |-> {},
              merged |-> <<>>, attrs |-> <<>>]

Init ==
    /\ DbIdle
    /\ FpIdle
    /\ RunIdle

\* The features the row operations of a specification are called with.
PairNames == {"f"}

Next ==
    \/ Construct
    \/ Exit
    \/ \E name \in DedicatedNames : create_feature(name, None)
    \/ \E name \in DedicatedNames \cup {"local", "hash"} : delete_feature(name)
    \/ \E f \in PairNames, v \in Values, hs \in Lists(Hashes), force \in BOOLEAN :
          insert(f, v, hs, force)
    \/ \E f \in PairNames, hs \in Lists(Hashes) : delete_hashes(f, hs)
    \/ \E f \in PairNames, vs \in Lists(Values) : delete_values(f, vs)
    \/ \E f \in PairNames, vs \in Lists(Values), hs \in Lists(Hashes) :
          delete(f, vs, hs)
    \/ \E f \in PairNames : feature_values(f)

Spec == Init /\ [][Next]_vars

\* Registry columns: create_feature with a default and the calls on them.
NextCols ==
    \/ Construct
    \/ Exit
    \/ create_feature("cnf", None)
    \/ \E name \in ColumnNames, d \in Defaults : create_feature(name, Some(d))
    \/ \E name \in ColumnNames \cup {"hash"} : delete_feature(name)
    \/ \E f \in ColumnNames, v \in Values, hs \in Lists(Hashes), force \in BOOLEAN :
          insert(f, v, hs, force)
    \/ \E f \in ColumnNames, hs \in Lists(Hashes) : delete_hashes(f, hs)
    \/ \E f \in ColumnNames, vs \in Lists(Values) : delete_values(f, vs)
    \/ \E f \in ColumnNames : feature_values(f)

SpecCols == Init /\ [][NextCols]_vars

\* Two registry columns with the default 0 and the forced writes to them.
NextTwoCols ==
    \/ Construct
    \/ Exit
    \/ create_feature("cnf", None)
    \/ \E name \in {"g", "k"} : create_feature(name, Some(<<"0">>))
    \/ \E f \in {"g", "k"}, v \in Values, hs \in Lists(Hashes) :
          insert(f, v, hs, TRUE)
    \/ \E f \in {"g", "k"}, hs \in Lists(Hashes) : delete_hashes(f, hs)

SpecTwoCols == Init /\ [][NextTwoCols]_vars

\* The local table and the registry that its insert trigger fills.
NextReg ==
    \/ Construct
    \/ Exit
    \/ \E name \in {"cnf", "local"} : create_feature(name, None)
    \/ \E name \in {"cnf", "local"} : delete_feature(name)
    \/ \E h \in Hashes, v \in Values : execute_insert_local(h, v)

SpecReg == Init /\ [][NextReg]_vars

\* A Database object on a store that has the local table: the store after
\* Database([path]), create_feature("cnf"), close, and Database([path]).
StoreWithCnf == create_feature_result(create(NoFile), "cnf", None).store

InitRegister ==
    /\ pc = "open"
    /\ store = init_database(StoreWithCnf, extract_infos(StoreWithCnf), TRUE).store
    /\ feature_infos = extract_infos(StoreWithCnf).infos
    /\ database_infos = Registry(<<StorePath>>)
    /\ connection = Connect(Registry(<<StorePath>>), FALSE).connection
    /\ last = Call("init", NoArgs, "ok", NoRet)
    /\ resultset \in Trees
    /\ seq = [pc |-> "done", i |-> 1, attrs |-> <<>>, merged |-> <<>>]
    /\ \E w \in 1..MaxWorkers :
          par = [pc |-> "submit", i |-> 1, workers |-> w, queued |-> <<>>,
                 running |-> {}, results |-> <<>>, merging |-> {},
                 merged |-> <<>>, attrs |-> <<>>, run |-> 1, dispatched |-> <<>>]
    /\ FpIdle

\* register_benchmarks over a tree, and again over the same tree.
NextRegister ==
    \/ RegisterWalk
    \/ ParClose
    \/ ParStart
    \/ \E t \in 1..(MaxList + 1) : ParFinish(t)
    \/ RegisterResult
    \/ ParJoin
    \/ RegisterAgain

SpecRegister == InitRegister /\ [][NextRegister]_vars

\* Database objects over lists of several paths.
NextFed ==
    \/ \E n \in 1..MaxPaths : \E path_list \in [1..n -> FedPaths] :
          ConstructFederation(path_list)
    \/ Exit

SpecFed == Init /\ [][NextFed]_vars

\* Paths are registered in local and the stale ones are removed.
NextStale ==
    \/ Construct
    \/ Exit
    \/ create_feature("cnf", None)
    \/ \E h \in Hashes, path \in Paths : execute_insert_local(h, path)
    \/ \E files \in Lists(Paths), answer \in BOOLEAN :
          remove_stale_benchmarks(files, answer)

SpecStale == Init /\ [][NextStale]_vars

\* The meta records of the tables.
NextMeta ==
    \/ Construct
    \/ Exit
    \/ \E t \in MetaTables, k \in MetaKeys, v \in MetaValues : meta_set(t, k, v)
    \/ \E t \in MetaTables, k \in MetaKeys \cup {EmptyText} : meta_clear(t, k)
    \/ \E t \in MetaTables : meta_record(t)

SpecMeta == Init /\ [][NextMeta]_vars

\* A Database object on a store whose dedicated feature "f" it knows: the
\* store after Database([path]), create_feature("f"), close, and the
\* Database([path]) that finalizes its connections at once.
StoreWithF == create_feature_result(create(NoFile), "f", None).store

InitFV ==
    /\ pc = "open"
    /\ store = init_database(StoreWithF, extract_infos(StoreWithF), TRUE).store
    /\ feature_infos = extract_infos(StoreWithF).infos
    /\ database_infos = Registry(<<StorePath>>)
    /\ connection = Connect(Registry(<<StorePath>>), FALSE).connection
    /\ last = Call("init", NoArgs, "ok", NoRet)
    /\ FpIdle
    /\ RunIdle

\* Texts are stored in "f" under one identity, and classified.
NextFV ==
    \/ /\ Cardinality(store.rows["f"]) < MaxStored
       /\ \E t \in Texts : insert("f", t, << <<"a">> >>, FALSE)
    \/ feature_values("f")

SpecFV == InitFV /\ [][NextFV]_vars

\* An instance file is fingerprinted.
InitFP ==
    /\ instance \in Instances
    /\ fp = <<>>
    /\ DbIdle
    /\ RunIdle

NextFP == Fingerprint

SpecFP == InitFP /\ [][NextFP]_vars

\* The same result set is run with jobs = 1 and with a pool of workers.
InitRun ==
    /\ resultset \in ResultSets
    /\ seq = [pc |-> "loop", i |-> 1, attrs |-> <<>>, merged |-> <<>>]
    /\ \E w \in 1..MaxWorkers :
          par = [pc |-> "submit", i |-> 1, workers |-> w, queued |-> <<>>,
                 running |-> {}, results |-> <<>>, merging |-> {},
                 merged |-> <<>>, attrs |-> <<>>]
    /\ DbIdle
    /\ FpIdle

NextRun ==
    \/ SeqStep
    \/ SeqReturn
    \/ ParSubmit
    \/ ParClose
    \/ ParStart
    \/ \E t \in 1..MaxRecords : ParFinish(t)
    \/ HandleResult
    \/ CallbackEnd
    \/ ParJoin

SpecRun == InitRun /\ [][NextRun]_vars

----------------------------------------------------------------------------
(* Dedicated (identity, value) features: claims C1 to C5, under Spec       *)

\* The identities a query "feature = value" returns.
Lookup(s, feature, value) == {r[1] : r \in {q \in s.rows[feature] : q[2] = value}}

\* The store but for the rows of one table.
Elsewhere(s, table) == [s EXCEPT !.rows[table] = {}]

\* C1: after create_feature(name) with no default, an insert of one identity
\* with a value on the same Database object succeeds, and so does the insert
\* of the same identity with another value that follows it; the pairs stored
\* before stay, the new pair is stored, and looking its value up returns the
\* identity.
C1_InsertAfterCreate ==
    [][ ( /\ last.op \in {"create_feature", "insert"}
          /\ last.err = "ok"
          /\ last.feature \in DedicatedNames
          /\ last'.op = "insert"
          /\ last'.feature = last.feature
          /\ Len(last'.hashes) = 1
          /\ <<last'.hashes[1], last'.value>> \notin store.rows[last.feature] )
        => ( /\ last'.err = "ok"
             /\ store'.rows[last.feature]
                  = store.rows[last.feature] \cup {<<last'.hashes[1], last'.value>>}
             /\ last'.hashes[1] \in Lookup(store', last.feature, last'.value) )
      ]_vars

C3_DeleteByIdentity ==
    [][ ( /\ last'.op = "delete_hashes"
          /\ last'.err = "ok"
          /\ feature_infos[last'.feature].default = None )
        => ( /\ store'.rows[last'.feature]
                  = {r \in store.rows[last'.feature] : r[1] \notin Range(last'.hashes)}
             /\ Elsewhere(store', last'.feature) = Elsewhere(store, last'.feature) )
      ]_vars

\* C4: deleting by value alone on a feature without a default removes each
\* given value for every identity that holds it and leaves every row with
\* any other value unchanged.
C4_DeleteByValue ==
    [][ ( /\ last'.op = "delete_values"
          /\ last'.err = "ok"
          /\ feature_infos[last'.feature].default = None )
        => ( /\ store'.rows[last'.feature]
                  = {r \in store.rows[last'.feature] : r[2] \notin Range(last'.values)}
             /\ Elsewhere(store', last'.feature) = Elsewhere(store, last'.feature) )
      ]_vars

\* C5: after delete_feature(name) on a dedicated-table feature the feature
\* no longer exists for that Database object: the existence check is false,
\* and a later insert, delete or feature_values that names it fails with the
\* unknown-feature error.
C5_DeletedFeatureIsGone ==
    [][ ( /\ last.op = "delete_feature"
          /\ last.err = "ok"
          /\ last.feature \in DedicatedNames )
        => ( /\ ~fexists(last.feature)
             /\ ( ( /\ last'.feature = last.feature
                     /\ last'.op \in {"insert", "delete_hashes", "delete_values",
                                      "delete", "feature_values"} )
                   => last'.err = "KeyError" ) )
      ]_vars

----------------------------------------------------------------------------
(* The identity registry: claim C6, under SpecReg                          *)

\* C6: in a store that init_database has reconciled (a Database object is
\* open on it and its features table exists), after any insertions into
\* local, every identity that occurs in local has its row in the features
\* table of the context (one row: hash is UNIQUE there).
C6_RegistryComplete ==
    (pc = "open" /\ store.features)
    => \A r \in store.rows["local"] : r[1] \in DOMAIN store.reg

----------------------------------------------------------------------------
(* run: claim C7, under SpecRun                                            *)

\* C7: for the same result set and the same compute function, the run with
\* jobs = 1 and the run with jobs > 1 end with the same attributes for every
\* identity, in whatever order the workers complete.
C7_SameFinalAttributes ==
    (seq.pc \in {"done", "raised"} /\ par.pc = "done") => seq.attrs = par.attrs

----------------------------------------------------------------------------
(* compute_degree_sequence_hash: claim C8, under SpecFP                    *)

\* The permutations of the variable numbers.
Renamings == {pi \in [VarNumbers -> VarNumbers] : \A v, w \in VarNumbers : pi[v] = pi[w] => v = w}

RenameLiteral(pi, num) ==
    IF num = 0 THEN 0 ELSE IF num < 0 THEN -pi[-num] ELSE pi[num]

\* The instance with its variables renumbered, each literal keeping its
\* polarity.
Rename(pi, lines) ==
    [i \in 1..Len(lines) |->
        Line(lines[i].head,
             [j \in 1..Len(lines[i].toks) |-> RenameLiteral(pi, lines[i].toks[j])])]

\* How often a literal occurs on the clause lines, the terminator aside.
Occurrences(lines, lit) ==
    Cardinality({p \in (1..Len(lines)) \X (1..MaxLits) :
                   /\ lines[p[1]].head = ""
                   /\ p[2] < Len(lines[p[1]].toks)
                   /\ lines[p[1]].toks[p[2]] = lit})

\* The (sum, absolute difference) of a variable's positive and negative
\* occurrences.
DegreeKey(lines, v) ==
    <<Occurrences(lines, v) + Occurrences(lines, -v),
      Abs(Occurrences(lines, v) - Occurrences(lines, -v))>>

\* The keys of the variables V in ascending order, as the bytes of the digest.
RECURSIVE AscendingBytes(_, _)
AscendingBytes(lines, V) ==
    IF V = {} THEN <<>>
    ELSE LET v == CHOOSE x \in V :
                    \A y \in V : ~KeyLess(DegreeKey(lines, y), DegreeKey(lines, x))
         IN  Str(DegreeKey(lines, v)[1]) \o <<" ">> \o Str(DegreeKey(lines, v)[2])
             \o <<" ">> \o AscendingBytes(lines, V \ {v})

\* C8: the digest of an instance is the digest of its renumbered instance,
\* for every permutation of the variable numbers that keeps the polarities;
\* it is the digest of the (sum, absolute difference) of the per-variable
\* (positive, negative) occurrence pairs in ascending order, so it depends on
\* the multiset of these pairs only.
C8_DegreeSequenceDigest ==
    fp # <<>>
    => /\ \A pi \in Renamings :
            compute_degree_sequence_hash(fp.hashvalue, Rename(pi, instance)) = fp
       /\ fp.attributes[1][3]
            = hexdigest(AscendingBytes(instance,
                  {v \in VarNumbers : DegreeKey(instance, v)[1] > 0}))

\* C8's case: the variable met first has the greater key, and the digest is
\* that of the keys in ascending order.
C8_Witness ==
    /\ instance = <<Line("", <<-1, 1, 2, 0>>)>>
    /\ fp # <<>>
    /\ fp.attributes[1][3] = hexdigest(<<"1", " ", "1", " ", "2", " ", "0", " ">>)

----------------------------------------------------------------------------
(* feature_values: claim C9, under SpecFV                                  *)

\* The whole text is a signed decimal or exponential numeric literal.
IsNumericLiteral(t) ==
    LET signed == Len(t) >= 1 /\ t[1] \in {"-", "+"}
        i0     == IF signed THEN 2 ELSE 1
        nInt   == DigitRun(t, i0)
        i1     == i0 + nInt
        point  == i1 <= Len(t) /\ t[i1] = "."
        nFrac  == IF point THEN DigitRun(t, i1 + 1) ELSE 0
        i2     == IF point THEN i1 + 1 + nFrac ELSE i1
        hasE   == i2 <= Len(t) /\ t[i2] \in {"e", "E"}
        eSign  == hasE /\ i2 + 1 <= Len(t) /\ t[i2 + 1] \in {"-", "+"}
        i3     == IF eSign THEN i2 + 2 ELSE i2 + 1
        nExp   == IF hasE THEN DigitRun(t, i3) ELSE 0
        end    == IF hasE THEN i3 + nExp ELSE i2
    IN  /\ nInt + nFrac >= 1
        /\ hasE => nExp >= 1
        /\ end = Len(t) + 1

\* C9: feature_values splits the distinct stored texts into two disjoint
\* classes that cover them: the texts that make the numeric range, each of
\* which is wholly a numeric literal, and the discrete list, which holds
\* every other text, the empty text included; the range is the least and the
\* greatest of the numbers of the first class.
C9_LexicalClassification ==
    (last.op = "feature_values" /\ last.err = "ok")
    => LET texts   == {r[2] : r \in store.rows[last.feature]}
           ranged  == texts \ last.ret.discrete
           numbers == {CastNumeric(t) : t \in ranged}
       IN  /\ last.ret.discrete \subseteq texts
           /\ \A t \in ranged : IsNumericLiteral(t)
           /\ EmptyText \in texts => EmptyText \in last.ret.discrete
           /\ last.ret.numeric = <<SqlMin(numbers), SqlMax(numbers)>>

----------------------------------------------------------------------------
(* create_feature: claim C10, under SpecCols                               *)

\* The feature exists with the shape create_feature would give it.
SameShapeExists(s, name, default_value) ==
    IF default_value = None THEN name \in s.tabs
    ELSE s.features /\ name \in DOMAIN s.cols /\ s.dflt[name] = default_value[1]

\* C10: create_feature for a feature that exists with the same shape, with
\* or without a default, raises no error and leaves the schema and every
\* stored value as they were.
C10_CreateIdempotent ==
    [][ (last'.op = "create_feature"
         /\ SameShapeExists(store, last'.feature, last'.values))
        => (last'.err = "ok" /\ store' = store) ]_vars

----------------------------------------------------------------------------
(* delete_feature: claim C11, under SpecCols                               *)

\* C11: delete_feature on a feature that is a registry column, or that is
\* virtual (a view), fails with the not-supported error of the Database and
\* drops nothing: the store is as before.
C11_DeleteUnsupported ==
    [][ ( /\ last'.op = "delete_feature"
          /\ last'.feature \in DOMAIN feature_infos
          /\ ( \/ feature_infos[last'.feature].column # "value"
               \/ feature_infos[last'.feature].virtual ) )
        => ( /\ last'.err = "DatabaseException"
             /\ store' = store ) ]_vars

----------------------------------------------------------------------------
(* insert into a dedicated feature: claim C12, under Spec                  *)

\* C12: a plain insert into a dedicated multi-valued feature, one of whose
\* (identity, value) pairs is stored already, fails with the constraint
\* error of a duplicate and adds none of its pairs; the insert of a value
\* that an identity does not have yet, while the identity has other values,
\* succeeds and adds the pair.
C12_DuplicateInsert ==
    [][ ( /\ last'.op = "insert"
          /\ ~last'.force
          /\ last'.feature \in DedicatedNames )
        => ( /\ (\E i \in 1..Len(last'.hashes) :
                   <<last'.hashes[i], last'.value>> \in store.rows[last'.feature])
                => ( /\ last'.err = "IntegrityError"
                     /\ store' = store )
             /\ ( /\ Len(last'.hashes) = 1
                  /\ <<last'.hashes[1], last'.value>> \notin store.rows[last'.feature]
                  /\ \E r \in store.rows[last'.feature] : r[1] = last'.hashes[1] )
                => ( /\ last'.err = "ok"
                     /\ store'.rows[last'.feature]
                          = store.rows[last'.feature]
                              \cup {<<last'.hashes[1], last'.value>>}
                     /\ Elsewhere(store', last'.feature)
                          = Elsewhere(store, last'.feature) ) ) ]_vars

\* C12's case: an insert of two pairs, one of them stored already, has
\* failed and the other pair is not stored.
C12_Witness ==
    /\ last.op = "insert"
    /\ ~last.force
    /\ last.err = "IntegrityError"
    /\ last.hashes = << <<"a">>, EmptyText >>
    /\ <<last.hashes[1], last.value>> \in store.rows[last.feature]
    /\ <<last.hashes[2], last.value>> \notin store.rows[last.feature]

----------------------------------------------------------------------------
(* Features with a default: claims C13 to C15, under SpecCols              *)

\* The Database object knows the feature as one with a default.
HasDefault(feature) ==
    feature \in DOMAIN feature_infos /\ feature_infos[feature].default # None

\* C13: after insert(feature, v, identities, force=True) on a feature that
\* the Database object knows with a default, every given identity has its
\* one row in the registry and the row's value for the feature is v,
\* whatever it was before (so the last of several forced inserts wins).
C13_ForcedInsertReplaces ==
    [][ ( /\ last'.op = "insert"
          /\ last'.force
          /\ last'.hashes # <<>>
          /\ HasDefault(last'.feature) )
        => ( /\ last'.err = "ok"
             /\ \A h \in Range(last'.hashes) :
                  /\ h \in DOMAIN store'.reg
                  /\ store'.reg[h][last'.feature] = last'.value ) ]_vars

\* C13's case: a forced insert has written a value that is not the default
\* of the feature.
C13_Witness ==
    /\ last.op = "insert"
    /\ last.force
    /\ last.err = "ok"
    /\ last.feature \in DOMAIN store.cols
    /\ last.value # store.cols[last.feature]
    /\ last.hashes = << <<"a">> >>
    /\ store.reg[<<"a">>][last.feature] = last.value

\* C14: delete_hashes on a feature that the Database object knows with a
\* default removes no row of the registry: afterwards every given identity
\* has its row, the row's value for the feature is the default of the
\* feature, and the rows of the identities not given are as before.
C14_DeleteResetsToDefault ==
    [][ ( /\ last'.op = "delete_hashes"
          /\ last'.hashes # <<>>
          /\ HasDefault(last'.feature) )
        => ( /\ last'.err = "ok"
             /\ DOMAIN store.reg \subseteq DOMAIN store'.reg
             /\ \A h \in Range(last'.hashes) :
                  /\ h \in DOMAIN store'.reg
                  /\ store'.reg[h][last'.feature] = store.cols[last'.feature]
             /\ \A h \in DOMAIN store.reg \ Range(last'.hashes) :
                  store'.reg[h] = store.reg[h] ) ]_vars

\* C15: delete_values on a feature that the Database object knows with a
\* default succeeds: the identities whose value for the feature is one of the
\* given values get the default of the feature, the other identities keep
\* their value, and no row of the registry is removed.
C15_DeleteValuesResets ==
    [][ ( /\ last'.op = "delete_values"
          /\ last'.values # <<>>
          /\ HasDefault(last'.feature) )
        => ( /\ last'.err = "ok"
             /\ DOMAIN store'.reg = DOMAIN store.reg
             /\ \A h \in DOMAIN store.reg :
                  store'.reg[h][last'.feature]
                    = IF store.reg[h][last'.feature] \in Range(last'.values)
                      THEN store.cols[last'.feature]
                      ELSE store.reg[h][last'.feature] ) ]_vars

----------------------------------------------------------------------------
(* Meta records: claim C16, under SpecMeta                                 *)

\* The dictionary a table's blob holds; none for a table without a row or
\* with the cleared blob.
StoredMeta(s, table) ==
    IF table \in DOMAIN s.meta /\ ~s.meta[table].empty
    THEN s.meta[table].dict
    ELSE <<>>

\* C16: meta_set is a read-modify-write merge: the call succeeds, the blob of
\* the table then holds the keys it held before and the key that was set with
\* the value given, and meta_record returns that dictionary; so setting a
\* second key keeps the first.
C16_MetaSetMerges ==
    [][ last'.op = "meta_set"
        => ( /\ last'.err = "ok"
             /\ StoredMeta(store', last'.feature)
                  = (last'.hashes[1] :> last'.value) @@ StoredMeta(store, last'.feature)
             /\ meta_record_result(store', last'.feature)
                  = [err |-> "ok", ret |-> StoredMeta(store', last'.feature)] ) ]_vars

----------------------------------------------------------------------------
(* run: claim C17, under SpecRun                                           *)

\* C17: an error of the computation for one record does not end the run: the
\* run with jobs = 1 is not left by the error, and when the run is over, with
\* jobs = 1 and with a pool, every record of the result set has reached the
\* merge callback, the failed ones as records of their error.
C17_ErrorsAreScoped ==
    /\ seq.pc # "raised"
    /\ seq.pc = "done" => \A i \in 1..Len(resultset) : i \in Range(seq.merged)
    /\ par.pc = "done" => \A i \in 1..Len(resultset) : i \in Range(par.merged)

----------------------------------------------------------------------------
(* remove_stale_benchmarks: claim C18, under SpecStale                     *)

\* The rows of local whose path is not a file of the disk the call saw.
StaleRows(s, files) == {r \in s.rows["local"] : ~isfile(files, r[2])}

\* C18: remove_stale_benchmarks deletes rows of local only when the answer
\* to the confirmation is affirmative, and then only rows whose path is not
\* a file; when the answer is negative or no registered path is stale, the
\* local table, and the store with it, is as it was.
C18_StaleRemoval ==
    [][ last'.op = "remove_stale_benchmarks"
        => ( /\ store'.rows["local"] \subseteq store.rows["local"]
             /\ store.rows["local"] \ store'.rows["local"]
                  \subseteq StaleRows(store, last'.values)
             /\ store.rows["local"] # store'.rows["local"] => last'.force
             /\ (~last'.force \/ StaleRows(store, last'.values) = {})
                  => store' = store ) ]_vars

\* An affirmed call found stale paths and left the rows of a path that is a
\* file.
C18_Witness ==
    /\ last.op = "remove_stale_benchmarks"
    /\ last.err = "ok"
    /\ last.force
    /\ last.ret # {}
    /\ store.rows["local"] # {}
    /\ \A r \in store.rows["local"] : isfile(last.values, r[2])

----------------------------------------------------------------------------
(* run: claims C19 and C20, under SpecRun                                  *)

\* How often task t was merged.
TimesMerged(merged, t) == Cardinality({k \in 1..Len(merged) : merged[k] = t})

\* C19: with a pool the workers only compute: the steps in which a task
\* starts or ends write no attribute; an attribute is written only by the
\* callback of one task in the controlling process, as one merge of that
\* task's result; and at most one callback is merging at any time.
C19_MergesSerialized ==
    [][ /\ Cardinality(par'.merging) <= 1
        /\ (par'.running # par.running \/ par'.queued # par.queued)
             => par'.attrs = par.attrs
        /\ par'.attrs # par.attrs
             => \E t \in par.merging :
                   /\ par.merging = {t}
                   /\ par'.merging = {}
                   /\ par'.attrs = callback_set_attributes_locked(
                                       par.attrs, Compute(resultset[t]).result, 1) ]_vars

\* A callback is merging while the outcome of another task waits for the
\* result handler and a third task is still running.
C19_Witness ==
    /\ par.merging # {}
    /\ par.results # <<>>
    /\ ~Compute(resultset[Head(par.results)]).raised
    /\ par.running # {}

\* C20: when run returns, every task it dispatched has ended, no outcome
\* waits and no callback is merging, and every task was merged exactly once;
\* after the return nothing is merged and no attribute is written.
C20_CompleteAtReturn ==
    [][ /\ par'.pc = "done"
             => /\ par'.queued = <<>> /\ par'.running = {}
                /\ par'.results = <<>> /\ par'.merging = {}
                /\ \A t \in 1..(par'.i - 1) : TimesMerged(par'.merged, t) = 1
        /\ seq'.pc = "done"
             => \A t \in 1..(seq'.i - 1) : TimesMerged(seq'.merged, t) = 1
        /\ par.pc = "done"
             => (par'.merged = par.merged /\ par'.attrs = par.attrs)
        /\ seq.pc = "done"
             => (seq'.merged = seq.merged /\ seq'.attrs = seq.attrs) ]_vars

\* What of C20 does not depend on a task that raised: at the return every
\* task has ended, every task that returned a value was merged exactly once,
\* a task that raised was not merged, and nothing is merged afterwards.
RunIsSynchronous ==
    [][ /\ par'.pc = "done"
             => /\ par'.queued = <<>> /\ par'.running = {}
                /\ par'.results = <<>> /\ par'.merging = {}
                /\ \A t \in 1..(par'.i - 1) :
                      TimesMerged(par'.merged, t)
                        = IF Compute(resultset[t]).raised THEN 0 ELSE 1
        /\ par.pc = "done"
             => (par'.merged = par.merged /\ par'.attrs = par.attrs) ]_vars

----------------------------------------------------------------------------
(* register_benchmarks: claim C21, under SpecRegister                      *)

\* A path that ends with a suffix of an instance file.
Recognized(path) == \E suffix \in Suffixes : endswith(path, suffix)

\* C21: a step of the walk dispatches compute_hash for the file it reaches
\* if and only if the file has a recognized suffix and no row of local has
\* its path; and a run of register_benchmarks after the first, over the same
\* tree, dispatches nothing and adds no row to local.
C21_RegisteredOnce ==
    [][ /\ (par.pc = "submit" /\ par'.i = par.i + 1)
             => ( par'.dispatched # par.dispatched
                  <=> ( /\ Recognized(resultset[par.i])
                        /\ \A r \in store.rows["local"] : r[2] # resultset[par.i] ) )
        /\ par'.run > 1
             => ( /\ par'.dispatched = <<>>
                  /\ store'.rows["local"] = store.rows["local"] ) ]_vars

----------------------------------------------------------------------------
(* The registry of the stores: claim C22, under SpecFed                    *)

\* C22: the construction of a Database from a non-empty list of store files
\* succeeds, whatever their names and order, and after a construction from
\* any list of paths exactly one registered store has main set, it is the
\* first of the registry, the connection is open on its file, and every
\* other registered store is attached to the connection.
C22_OnePrimary ==
    [][ last'.op = "init"
        => ( /\ Range(last'.hashes) \cap CsvPaths = {} => last'.err = "ok"
             /\ pc' = "open"
                  => ( /\ Cardinality({i \in 1..Len(database_infos') :
                                         database_infos'[i].main}) = 1
                       /\ database_infos'[1].main
                       /\ connection'.path = Some(database_infos'[1].path)
                       /\ \A i \in 2..Len(database_infos') :
                            database_infos'[i].name \in Range(connection'.attached) ) ) ]_vars

----------------------------------------------------------------------------
(* The scaffold reconciliation: claim C23, under SpecReg                   *)

\* A store that init_database has reconciled without error: local, the
\* views filename and hash, features and the insert trigger exist.
Reconciled(s) ==
    /\ prepend_context("local", "cnf") \in s.tabs
    /\ {prepend_context("filename", "cnf"), prepend_context("hash", "cnf")}
         \subseteq s.views
    /\ s.features
    /\ s.trigger

\* C23: the reconciliation of a start-up on a store that is reconciled
\* already raises no error and creates nothing: the tables, views and the
\* trigger of the store are those it had.
C23_ReconcileIdempotent ==
    [][ (last'.op = "init" /\ Reconciled(store))
        => (last'.err = "ok" /\ store' = store) ]_vars

----------------------------------------------------------------------------
(* Forced writes to one of two registry columns: claim C24, under          *)
(* SpecTwoCols                                                             *)

\* C24: a forced insert or a delete_hashes on a feature that the Database
\* object knows with a default leaves, in the rows of the given identities,
\* the values of every other column of the registry as they were.
C24_OtherColumnsKept ==
    [][ ( /\ \/ (last'.op = "insert" /\ last'.force)
             \/ last'.op = "delete_hashes"
          /\ HasDefault(last'.feature) )
        => \A h \in Range(last'.hashes) \cap DOMAIN store.reg :
              \A c \in DOMAIN store.cols \ {last'.feature} :
                 /\ h \in DOMAIN store'.reg
                 /\ store'.reg[h][c] = store.reg[h][c] ]_vars

====
